---- MODULE Spec2Model ----
(***************************************************************************)
(* SentinelAI phishing detector (src/app.py): the startup model load, the  *)
(* "Analyze Email" handler with its input validation, the text classifier, *)
(* the per-link classifier and the rendering of the two result panels.     *)
(*                                                                         *)
(* Text is a sequence of one-character strings, so that strip, split,      *)
(* len, count, substring search and the two regular expressions are        *)
(* computed on characters as Python computes them.  A reason shown to the  *)
(* user is a sequence of string fragments whose concatenation is the       *)
(* Python string (a join puts the fragment ", " between its elements).     *)
(***************************************************************************)
EXTENDS Integers, Sequences, FiniteSets

(***************************************************************************)
(* Bounds of the model.                                                    *)
(***************************************************************************)
\* An input text is made of at most MaxPieces pieces joined by one space.
MaxPieces == 3

(***************************************************************************)
(* Character-level helpers (Python str methods and the re module).         *)
(***************************************************************************)
None == "None"

WS == {" ", "\t", "\n"}

DIGITS == {"0", "1", "2", "3", "4", "5", "6", "7", "8", "9"}

IsWs(c) == c \in WS

IsDigit(c) == c \in DIGITS

RECURSIVE FirstNonWs(_, _)
\* The first position from k on that holds no whitespace (Len(s) + 1 if none).
FirstNonWs(s, k) ==
    IF k > Len(s) \/ ~IsWs(s[k]) THEN k ELSE FirstNonWs(s, k + 1)

RECURSIVE LastNonWs(_, _)
\* The last position up to k that holds no whitespace (0 if none).
LastNonWs(s, k) ==
    IF k = 0 \/ ~IsWs(s[k]) THEN k ELSE LastNonWs(s, k - 1)

\* str.strip(): leading and trailing whitespace removed.
Strip(s) == SubSeq(s, FirstNonWs(s, 1), LastNonWs(s, Len(s)))

RECURSIVE RunEnd(_, _)
\* The end of the run of non-whitespace characters that holds position k.
RunEnd(s, k) ==
    IF k >= Len(s) \/ IsWs(s[k + 1]) THEN k ELSE RunEnd(s, k + 1)

RECURSIVE SplitFrom(_, _)
\* str.split() from position k on: the whitespace-delimited tokens, in order.
SplitFrom(s, k) ==
    IF FirstNonWs(s, k) > Len(s) THEN <<>>
    ELSE <<SubSeq(s, FirstNonWs(s, k), RunEnd(s, FirstNonWs(s, k)))>>
         \o SplitFrom(s, RunEnd(s, FirstNonWs(s, k)) + 1)

Split(s) == SplitFrom(s, 1)

\* sub in s
Contains(s, sub) ==
    \E k \in 0..(Len(s) - Len(sub)) : SubSeq(s, k + 1, k + Len(sub)) = sub

\* s.count(c) for a one-character c
Count(s, c) == Cardinality({k \in 1..Len(s) : s[k] = c})

\* sum(c.isdigit() for c in s)
DigitCount(s) == Cardinality({k \in 1..Len(s) : IsDigit(s[k])})

UPPER == <<"A", "B", "C", "D", "E", "F", "G", "H", "I", "J", "K", "L", "M",
           "N", "O", "P", "Q", "R", "S", "T", "U", "V", "W", "X", "Y", "Z">>

LOWER == <<"a", "b", "c", "d", "e", "f", "g", "h", "i", "j", "k", "l", "m",
           "n", "o", "p", "q", "r", "s", "t", "u", "v", "w", "x", "y", "z">>

LowerChar(c) ==
    IF \E n \in 1..26 : UPPER[n] = c
    THEN LOWER[CHOOSE n \in 1..26 : UPPER[n] = c]
    ELSE c

\* str.lower()
Lower(s) == [k \in 1..Len(s) |-> LowerChar(s[k])]

AllDigits(s, a, b) == b <= Len(s) /\ \A k \in a..b : IsDigit(s[k])

IsChar(s, k, c) == k >= 1 /\ k <= Len(s) /\ s[k] = c

\* re.search(r'\d{1,3}\.\d{1,3}\.\d{1,3}\.\d{1,3}', s): an unanchored search,
\* so the first and the last group need only one digit next to their dot.
SearchDottedQuad(s) ==
    \E p \in {q \in 2..Len(s) : s[q] = "." /\ IsDigit(s[q - 1])} :
        \E b \in 1..3, c \in 1..3 :
            /\ AllDigits(s, p + 1, p + b)
            /\ IsChar(s, p + b + 1, ".")
            /\ AllDigits(s, p + b + 2, p + b + 1 + c)
            /\ IsChar(s, p + b + c + 2, ".")
            /\ AllDigits(s, p + b + c + 3, p + b + c + 3)

HTTP == <<"h", "t", "t", "p">>

COLON_SLASHES == <<":", "/", "/">>

StartsWithAt(s, k, pre) ==
    k + Len(pre) - 1 <= Len(s) /\ SubSeq(s, k, k + Len(pre) - 1) = pre

\* The length of the prefix "http://" or "https://" at position k, 0 if none.
SchemeLenAt(s, k) ==
    IF StartsWithAt(s, k, HTTP \o <<"s">> \o COLON_SLASHES) THEN 8
    ELSE IF StartsWithAt(s, k, HTTP \o COLON_SLASHES) THEN 7
    ELSE 0

\* Whether https?://\S+ matches at position k: the prefix and at least one
\* non-whitespace character after it.
MatchesAt(s, k) ==
    /\ SchemeLenAt(s, k) > 0
    /\ k + SchemeLenAt(s, k) <= Len(s)
    /\ ~IsWs(s[k + SchemeLenAt(s, k)])

RECURSIVE FindAllFrom(_, _)
\* re.findall(r'(https?://\S+)', s) from position k on: leftmost matches,
\* each running to the next whitespace, the scan resuming after the match.
FindAllFrom(s, k) ==
    IF k > Len(s) THEN <<>>
    ELSE IF MatchesAt(s, k)
         THEN <<SubSeq(s, k, RunEnd(s, k))>> \o FindAllFrom(s, RunEnd(s, k) + 1)
         ELSE FindAllFrom(s, k + 1)

\* The first match alone, as re.search would give it.
FindFirst(s) ==
    IF Len(FindAllFrom(s, 1)) = 0 THEN <<>> ELSE <<FindAllFrom(s, 1)[1]>>

FindAll(s) == FindAllFrom(s, 1)

Range(f) == {f[k] : k \in DOMAIN f}

(***************************************************************************)
(* urllib.parse.urlparse on a string that starts with http:// or https://, *)
(* the only strings the handler passes to it.                              *)
(***************************************************************************)
NETLOC_DELIMS == {"/", "?", "#"}

RECURSIVE NetlocEnd(_, _)
\* The last position of the netloc that starts at k: it runs to the first
\* of / ? # (or to the end).
NetlocEnd(url, k) ==
    IF k > Len(url) \/ url[k] \in NETLOC_DELIMS THEN k - 1
    ELSE NetlocEnd(url, k + 1)

NetlocOf(url) ==
    SubSeq(url, SchemeLenAt(url, 1) + 1, NetlocEnd(url, SchemeLenAt(url, 1) + 1))

\* urlsplit raises ValueError("Invalid IPv6 URL") when the netloc holds one
\* of '[' and ']' without the other.
urlparse(url) ==
    LET netloc == NetlocOf(url)
        open == \E k \in 1..Len(netloc) : netloc[k] = "["
        close == \E k \in 1..Len(netloc) : netloc[k] = "]"
    IN  [raised |-> open # close,
         scheme |-> IF SchemeLenAt(url, 1) = 8 THEN "https" ELSE "http",
         netloc |-> netloc]

(***************************************************************************)
(* 1. Configuration and whitelist.                                         *)
(***************************************************************************)
WHITELIST ==
    << <<"z", "o", "o", "m", ".", "u", "s">>,
       <<"g", "o", "o", "g", "l", "e", ".", "c", "o", "m">>,
       <<"m", "i", "c", "r", "o", "s", "o", "f", "t", ".", "c", "o", "m">>,
       <<"o", "u", "t", "l", "o", "o", "k", ".", "c", "o", "m">>,
       <<"p", "a", "y", "p", "a", "l", ".", "c", "o", "m">>,
       <<"n", "e", "t", "f", "l", "i", "x", ".", "c", "o", "m">>,
       <<"d", "r", "i", "v", "e", ".", "g", "o", "o", "g", "l", "e", ".",
         "c", "o", "m">> >>

\* domain in WHITELIST: a test by equality instead of containment.
IsWhitelistedExact(domain) ==
    \E n \in 1..Len(WHITELIST) : domain = WHITELIST[n]

\* any(trusted in domain for trusted in WHITELIST)
IsWhitelisted(domain) ==
    \E n \in 1..Len(WHITELIST) : Contains(domain, WHITELIST[n])

(***************************************************************************)
(* 2. Feature extraction.                                                  *)
(***************************************************************************)
extract_features(url) ==
    <<Len(url), Count(url, "."), Count(url, "@"), Count(url, "-"),
      DigitCount(url),
      IF urlparse(url).scheme = "https" THEN 1 ELSE 0,
      IF SearchDottedQuad(url) THEN 1 ELSE 0>>

(***************************************************************************)
(* 3. Input validation.                                                    *)
(***************************************************************************)
MSG_EMPTY == "Empty input, Paste something to analyze."

MSG_SHORT == "Input is too short to be a valid email."

MSG_GIBBERISH == "Detected gibberish or non-human text."

MSG_FEW_WORDS == "Contains too few words. Please paste the full email body."

\* any(len(w) > 40 and 'http' not in w for w in words)
HasGibberish(words) ==
    \E n \in 1..Len(words) : Len(words[n]) > 40 /\ ~Contains(words[n], HTTP)

\* The validator with its length check off by one (len(text) < 19).
is_valid_email_text_19(text) ==
    LET t == Strip(text)
    IN  IF Len(t) = 0
        THEN [raised |-> FALSE, ok |-> FALSE, msg |-> MSG_EMPTY]
        ELSE IF Len(t) < 19
        THEN [raised |-> FALSE, ok |-> FALSE, msg |-> MSG_SHORT]
        ELSE [raised |-> TRUE, ok |-> FALSE, msg |-> "UnboundLocalError"]

\* is_valid_email_text.  Line 37 reads the local `words`, which line 39
\* binds: the read raises UnboundLocalError whenever it is reached, that is
\* for every text the first two checks let through, and lines 38-43 never
\* run.
is_valid_email_text(text) ==
    LET t == Strip(text)
    IN  IF Len(t) = 0
        THEN [raised |-> FALSE, ok |-> FALSE, msg |-> MSG_EMPTY]
        ELSE IF Len(t) < 20
        THEN [raised |-> FALSE, ok |-> FALSE, msg |-> MSG_SHORT]
        ELSE [raised |-> TRUE, ok |-> FALSE, msg |-> "UnboundLocalError"]

\* The texts that none of the four checks of is_valid_email_text rejects
\* (lines 33, 35, 37 and 40, each read with `words` bound to text.split()).
PassesChecks(text) ==
    LET t == Strip(text)
        words == Split(t)
    IN  /\ Len(t) # 0
        /\ ~(Len(t) < 20)
        /\ ~HasGibberish(words)
        /\ ~(Len(words) < 3)

(***************************************************************************)
(* 4. The backup engine (rule based).                                      *)
(***************************************************************************)
\* ", ".join(parts), as fragments.
RECURSIVE Join(_)
Join(parts) ==
    IF Len(parts) = 0 THEN <<>>
    ELSE IF Len(parts) = 1 THEN <<parts[1]>>
    ELSE <<parts[1], ", ">> \o Join(Tail(parts))

\* [x for x in items if keep(x)], for a set of kept positions.
RECURSIVE Filter(_, _)
Filter(items, kept) ==
    IF Len(items) = 0 THEN <<>>
    ELSE (IF Len(items) \in kept THEN Filter(SubSeq(items, 1, Len(items) - 1), kept) \o <<items[Len(items)]>>
          ELSE Filter(SubSeq(items, 1, Len(items) - 1), kept))

KEYWORDS ==
    << [name |-> "urgent", chars |-> <<"u", "r", "g", "e", "n", "t">>],
       [name |-> "verify", chars |-> <<"v", "e", "r", "i", "f", "y">>],
       [name |-> "suspended", chars |-> <<"s", "u", "s", "p", "e", "n", "d", "e", "d">>],
       [name |-> "immediately", chars |-> <<"i", "m", "m", "e", "d", "i", "a", "t", "e", "l", "y">>],
       [name |-> "close", chars |-> <<"c", "l", "o", "s", "e">>],
       [name |-> "bank", chars |-> <<"b", "a", "n", "k">>],
       [name |-> "password", chars |-> <<"p", "a", "s", "s", "w", "o", "r", "d">>],
       [name |-> "unauthorized", chars |-> <<"u", "n", "a", "u", "t", "h", "o", "r", "i", "z", "e", "d">>],
       [name |-> "lock", chars |-> <<"l", "o", "c", "k">>],
       [name |-> "action required", chars |-> <<"a", "c", "t", "i", "o", "n", " ", "r", "e", "q", "u", "i", "r", "e", "d">>] >>

backup_text_scan(text) ==
    LET low == Lower(text)
        hit == {n \in 1..Len(KEYWORDS) : Contains(low, KEYWORDS[n].chars)}
        found == Filter([n \in 1..Len(KEYWORDS) |-> KEYWORDS[n].name], hit)
    IN  IF Len(found) > 0
        THEN [flag |-> 1, reason |-> <<"Contains panic words: ">> \o Join(found)]
        ELSE [flag |-> 0, reason |-> <<"Language appears normal">>]

\* The reasons backup_url_scan appends, in the order of its five checks.
BackupReasons(url) ==
    (IF SearchDottedQuad(url) THEN <<"IP address masking">> ELSE <<>>)
    \o (IF Count(url, ".") > 3 THEN <<"Too many subdomains">> ELSE <<>>)
    \o (IF Count(url, "-") > 3 THEN <<"Too many dashes">> ELSE <<>>)
    \o (IF Count(url, "@") > 0 THEN <<"Contains '@' symbol">> ELSE <<>>)
    \o (IF Len(url) > 75 THEN <<"URL is suspiciously long">> ELSE <<>>)

backup_url_scan(url) ==
    LET reasons == BackupReasons(url)
    IN  IF Len(reasons) > 0
        THEN [flag |-> 1, reason |-> Join(reasons)]
        ELSE [flag |-> 0, reason |-> <<"Clean URL structure">>]

(***************************************************************************)
(* 5. Model load.  failAt is the joblib.load call that raises (1, 2 or 3)  *)
(* or 0 when all three succeed; the except clause returns three Nones.     *)
(***************************************************************************)
Loaded == "loaded"

\* A load whose except clause keeps what was loaded before the failure.
load_brain_partial(failAt) ==
    <<IF failAt \in {0, 2, 3} THEN Loaded ELSE None,
      IF failAt \in {0, 3} THEN Loaded ELSE None,
      IF failAt = 0 THEN Loaded ELSE None>>

load_brain(failAt) ==
    IF failAt = 0 THEN <<Loaded, Loaded, Loaded>> ELSE <<None, None, None>>

(***************************************************************************)
(* 6. The handler's classifiers.  label and proba are what the model       *)
(* provider answers; they are read only on the statistical path.           *)
(***************************************************************************)
\* The text classifier with the two fallback confidences exchanged.
ClassifyTextSwapped(text, tm, vec, label, proba) ==
    IF tm # None
    THEN [raised |-> vec = None, is_phishing |-> label, confidence |-> proba,
          reason |-> IF label # 0
                     THEN <<"Suspicious language patterns detected">>
                     ELSE <<"Language appears normal">>,
          path |-> "model",
          calls |-> << [fn |-> "vectorizer.transform", feats |-> <<>>, ret |-> 0],
                       [fn |-> "text_model.predict", feats |-> <<>>, ret |-> label],
                       [fn |-> "text_model.predict_proba", feats |-> <<>>,
                        ret |-> proba] >>]
    ELSE LET r == backup_text_scan(text)
         IN  [raised |-> FALSE, is_phishing |-> r.flag,
              confidence |-> IF r.flag # 0 THEN 5 ELSE 95,
              reason |-> r.reason, path |-> "rules", calls |-> <<>>]

\* Lines 102-109.  A call is [fn, feats, ret]: the function, the feature
\* vector handed to it (<<>> for the text calls) and its answer.
ClassifyText(text, tm, vec, label, proba) ==
    IF tm # None
    THEN IF vec = None
         THEN [raised |-> TRUE, is_phishing |-> 0, confidence |-> 0,
               reason |-> <<>>, path |-> "model", calls |-> <<>>]
         ELSE [raised |-> FALSE, is_phishing |-> label, confidence |-> proba,
               reason |-> IF label # 0
                          THEN <<"Suspicious language patterns detected">>
                          ELSE <<"Language appears normal">>,
               path |-> "model",
               calls |-> << [fn |-> "vectorizer.transform", feats |-> <<>>,
                             ret |-> 0],
                            [fn |-> "text_model.predict", feats |-> <<>>,
                             ret |-> label],
                            [fn |-> "text_model.predict_proba", feats |-> <<>>,
                             ret |-> proba] >>]
    ELSE LET r == backup_text_scan(text)
         IN  [raised |-> FALSE, is_phishing |-> r.flag,
              confidence |-> IF r.flag # 0 THEN 95 ELSE 5,
              reason |-> r.reason, path |-> "rules", calls |-> <<>>]

\* Lines 111-118: the content panel.
RenderContent(isPhishing, conf, why) ==
    IF isPhishing # 0
    THEN [kind |-> "error", pct |-> conf, why |-> why]
    ELSE [kind |-> "success", pct |-> 100 - conf, why |-> why]

\* Lines 135-151: the rule chain of the statistical path (if / elif).
ActiveRuleCheck(url) ==
    IF SearchDottedQuad(url)
    THEN [manual_fail |-> TRUE, reason |-> <<"IP Address Masking (Rule Violation)">>]
    ELSE IF Count(url, ".") > 3
    THEN [manual_fail |-> TRUE, reason |-> <<"Too many subdomains (Rule Violation)">>]
    ELSE IF Count(url, "-") > 3
    THEN [manual_fail |-> TRUE,
          reason |-> <<"Too many dashes / Typosquatting (Rule Violation)">>]
    ELSE IF Count(url, "@") > 0
    THEN [manual_fail |-> TRUE, reason |-> <<"Contains '@' symbol (Rule Violation)">>]
    ELSE [manual_fail |-> FALSE, reason |-> <<"AI Pattern Match (Suspicious Structure)">>]

\* Lines 126-167: one iteration of the link loop.  list is the list the
\* (url, reason) pair is appended to.
ClassifyLink(url, um, label) ==
    IF urlparse(url).raised
    THEN [raised |-> TRUE, list |-> "none", reason |-> <<>>, path |-> "none",
          calls |-> <<>>]
    ELSE IF IsWhitelisted(urlparse(url).netloc)
    THEN [raised |-> FALSE, list |-> "safe", reason |-> <<"Trusted Domain">>,
          path |-> "whitelist", calls |-> <<>>]
    ELSE IF um # None
    THEN LET rule == ActiveRuleCheck(url)
             ai_fail == (label = 1)
         IN  [raised |-> FALSE,
              list |-> IF rule.manual_fail \/ ai_fail THEN "bad" ELSE "safe",
              reason |-> IF rule.manual_fail \/ ai_fail THEN rule.reason
                         ELSE <<"AI Analysis Passed">>,
              path |-> "model",
              calls |-> << [fn |-> "url_model.predict",
                            feats |-> extract_features(url),
                            ret |-> label] >>]
    ELSE LET r == backup_url_scan(url)
         IN  [raised |-> FALSE,
              list |-> IF r.flag # 0 THEN "bad" ELSE "safe",
              reason |-> IF r.flag # 0 THEN r.reason
                         ELSE <<"Link Structure Clean">>,
              path |-> "rules", calls |-> <<>>]

\* Lines 169-183: the link panel.
RenderLinks(bad, safe) ==
    IF Len(bad) > 0
    THEN [kind |-> "error", count |-> Len(bad), shown |-> bad]
    ELSE IF Len(safe) > 0
    THEN [kind |-> "success", count |-> Len(safe), shown |-> safe]
    ELSE [kind |-> "info", count |-> 0, shown |-> <<>>]

(***************************************************************************)
(* Inputs.                                                                 *)
(***************************************************************************)
RECURSIVE Rep(_, _)
Rep(c, n) == IF n = 0 THEN <<>> ELSE <<c>> \o Rep(c, n - 1)

\* The pieces an input text is made of: nothing (which yields leading,
\* trailing and doubled spaces), two words, a 41-character token without
\* "http", and URLs: a trusted host with a dotted quad in the path; one that
\* breaks four rules at once; a 76-character one that breaks only the
\* length rule; one with an unbalanced '['; one that breaks no rule and
\* holds a trusted name in its path only.
PIECES ==
    { <<>>,
      <<"h", "e", "l", "l", "o">>,
      <<"U", "r", "g", "e", "n", "t">>,
      Rep("x", 41),
      <<"h", "t", "t", "p", ":", "/", "/", "w", "w", "w", ".", "p", "a", "y",
        "p", "a", "l", ".", "c", "o", "m", "/", "1", ".", "2", ".", "3", ".",
        "4">>,
      <<"h", "t", "t", "p", ":", "/", "/", "1", ".", "2", ".", "3", ".", "4",
        "/", "a", "-", "b", "-", "c", "-", "d", "@", "e", ".", "f">>,
      <<"h", "t", "t", "p", "s", ":", "/", "/", "e", "x", ".", "i", "o", "/">>
        \o Rep("a", 62),
      <<"h", "t", "t", "p", ":", "/", "/", "[", "e">>,
      <<"h", "t", "t", "p", ":", "/", "/", "e", "x", ".", "i", "o", "/", "p",
        "a", "y", "p", "a", "l", ".", "c", "o", "m">> }

RECURSIVE JoinPieces(_)
JoinPieces(ps) ==
    IF Len(ps) = 0 THEN <<>>
    ELSE IF Len(ps) = 1 THEN ps[1]
    ELSE ps[1] \o <<" ">> \o JoinPieces(Tail(ps))

TextInputs ==
    {JoinPieces(ps) : ps \in UNION {[1..n -> PIECES] : n \in 0..MaxPieces}}

\* What the model provider may answer: a label, and predict_proba * 100.
LABELS == {0, 1}

PROBAS == {20, 80}

(***************************************************************************)
(* State.  calls is the log of the calls made to the model provider and    *)
(* paths the branch each classification took (the text's first, then one   *)
(* per link); both are history variables.                                  *)
(***************************************************************************)
VARIABLES url_model, text_model, vectorizer, pc, email_text, is_valid,
          error_msg, exc, is_phishing, confidence, col1, urls, i,
          bad_links, safe_links, col2, calls, paths

models == <<url_model, text_model, vectorizer>>

run == <<is_valid, error_msg, exc, is_phishing, confidence, col1, urls, i,
         bad_links, safe_links, col2, calls, paths>>

vars == <<url_model, text_model, vectorizer, pc, email_text, is_valid,
          error_msg, exc, is_phishing, confidence, col1, urls, i,
          bad_links, safe_links, col2, calls, paths>>

NoPanel == [kind |-> "none"]

\* The state of a script run before the handler has done anything.
FreshRun ==
    /\ is_valid = FALSE
    /\ error_msg = ""
    /\ exc = ""
    /\ is_phishing = 0
    /\ confidence = 0
    /\ col1 = NoPanel
    /\ urls = <<>>
    /\ i = 0
    /\ bad_links = <<>>
    /\ safe_links = <<>>
    /\ col2 = NoPanel
    /\ calls = <<>>
    /\ paths = <<>>

Init ==
    /\ pc = "startup"
    /\ url_model = None
    /\ text_model = None
    /\ vectorizer = None
    /\ email_text = <<>>
    /\ FreshRun

\* Line 77: the three models, loaded once (st.cache_resource keeps the
\* result for every later run of the script).
LoadBrain ==
    /\ pc = "startup"
    /\ \E failAt \in 0..3 :
          /\ url_model' = load_brain(failAt)[1]
          /\ text_model' = load_brain(failAt)[2]
          /\ vectorizer' = load_brain(failAt)[3]
    /\ pc' = "idle"
    /\ UNCHANGED <<email_text, run>>

\* The next interaction reruns the script from the top: the page of the
\* last run is cleared, line 77 gets the cached result of load_brain.
Rerun ==
    /\ pc \in {"invalid", "raised", "done"}
    /\ pc' = "idle"
    /\ email_text' = <<>>
    /\ is_valid' = FALSE
    /\ error_msg' = ""
    /\ exc' = ""
    /\ is_phishing' = 0
    /\ confidence' = 0
    /\ col1' = NoPanel
    /\ urls' = <<>>
    /\ i' = 0
    /\ bad_links' = <<>>
    /\ safe_links' = <<>>
    /\ col2' = NoPanel
    /\ calls' = <<>>
    /\ paths' = <<>>
    /\ UNCHANGED models

\* Lines 89-91: a text is pasted and "Analyze Email" pressed.
Click ==
    /\ pc = "idle"
    /\ email_text' \in TextInputs
    /\ pc' = "sanity"
    /\ is_valid' = FALSE
    /\ error_msg' = ""
    /\ exc' = ""
    /\ is_phishing' = 0
    /\ confidence' = 0
    /\ col1' = NoPanel
    /\ urls' = <<>>
    /\ i' = 0
    /\ bad_links' = <<>>
    /\ safe_links' = <<>>
    /\ col2' = NoPanel
    /\ calls' = <<>>
    /\ paths' = <<>>
    /\ UNCHANGED models

\* Lines 93-97: the sanity check.  is_valid_email_text either rejects the
\* text (the warning is shown and the handler ends) or raises.
SanityCheck ==
    /\ pc = "sanity"
    /\ \E r \in {is_valid_email_text(email_text)} :
           IF r.raised
           THEN /\ pc' = "raised"
                /\ exc' = r.msg
                /\ UNCHANGED <<is_valid, error_msg>>
           ELSE /\ pc' = IF r.ok THEN "text" ELSE "invalid"
                /\ is_valid' = r.ok
                /\ error_msg' = r.msg
                /\ exc' = exc
    /\ UNCHANGED <<models, email_text, is_phishing, confidence, col1, urls, i,
                   bad_links, safe_links, col2, calls, paths>>

\* Line 97, the else branch, taken for a text that passes the four checks
\* of the validator (PassesChecks).
ValidInput ==
    /\ pc = "sanity"
    /\ PassesChecks(email_text)
    /\ pc' = "text"
    /\ is_valid' = TRUE
    /\ UNCHANGED <<models, email_text, error_msg, exc, is_phishing, confidence,
                   col1, urls, i, bad_links, safe_links, col2, calls, paths>>

\* Lines 101-123: the text verdict, the content panel, the URLs found.
AnalyzeText ==
    /\ pc = "text"
    /\ \E label \in LABELS, proba \in PROBAS :
          \E r \in {ClassifyText(email_text, text_model, vectorizer, label, proba)} :
              IF r.raised
              THEN /\ pc' = "raised"
                   /\ exc' = "AttributeError"
                   /\ paths' = Append(paths, r.path)
                   /\ UNCHANGED <<is_phishing, confidence, col1, urls, i, calls>>
              ELSE /\ pc' = "links"
                   /\ is_phishing' = r.is_phishing
                   /\ confidence' = r.confidence
                   /\ col1' = RenderContent(r.is_phishing, r.confidence, r.reason)
                   /\ calls' = calls \o r.calls
                   /\ paths' = Append(paths, r.path)
                   /\ urls' = FindAll(email_text)
                   /\ i' = 1
                   /\ exc' = exc
    /\ UNCHANGED <<models, email_text, is_valid, error_msg, bad_links,
                   safe_links, col2>>

\* Lines 125-167: the loop body for urls[i].
LinkStep ==
    /\ pc = "links"
    /\ i <= Len(urls)
    /\ \E label \in LABELS :
          \E r \in {ClassifyLink(urls[i], url_model, label)} :
              IF r.raised
              THEN /\ pc' = "raised"
                   /\ exc' = "ValueError"
                   /\ UNCHANGED <<i, bad_links, safe_links, calls, paths>>
              ELSE /\ pc' = pc
                   /\ exc' = exc
                   /\ i' = i + 1
                   /\ bad_links' = IF r.list = "bad"
                                   THEN Append(bad_links, <<urls[i], r.reason>>)
                                   ELSE bad_links
                   /\ safe_links' = IF r.list = "safe"
                                    THEN Append(safe_links, <<urls[i], r.reason>>)
                                    ELSE safe_links
                   /\ calls' = calls \o r.calls
                   /\ paths' = Append(paths, r.path)
    /\ UNCHANGED <<models, email_text, is_valid, error_msg, is_phishing,
                   confidence, col1, urls, col2>>

\* Lines 169-183: the loop is over; the link panel is shown.
ShowLinks ==
    /\ pc = "links"
    /\ i > Len(urls)
    /\ col2' = RenderLinks(bad_links, safe_links)
    /\ pc' = "done"
    /\ UNCHANGED <<models, email_text, is_valid, error_msg, exc, is_phishing,
                   confidence, col1, urls, i, bad_links, safe_links, calls,
                   paths>>

\* The program as written.
Next == LoadBrain \/ Click \/ SanityCheck \/ Rerun

Spec == Init /\ [][Next]_vars

\* The handler's analysis branch (lines 98-183).  As written the script
\* never gets past the sanity check with a text of 20 characters or more
\* (see is_valid_email_text), so the branch is checked on its own:
\* ValidInput enters it with any text that none of the validator's four
\* checks rejects.
NextAnalysis ==
    LoadBrain \/ Click \/ ValidInput \/ AnalyzeText \/ LinkStep \/ ShowLinks
    \/ Rerun

SpecAnalysis == Init /\ [][NextAnalysis]_vars

(***************************************************************************)
(* Properties.                                                             *)
(***************************************************************************)
Degraded == url_model = None /\ text_model = None /\ vectorizer = None

Active == url_model = Loaded /\ text_model = Loaded /\ vectorizer = Loaded

\* The sanity check of the current run has been made.
Checked == pc \in {"invalid", "raised", "text", "links", "done"}

\* The host part (urlparse's netloc) of url holds a trusted domain.
HostTrusted(url) ==
    /\ ~urlparse(url).raised
    /\ \E n \in 1..Len(WHITELIST) : Contains(NetlocOf(url), WHITELIST[n])

\* The URLs of the links handled so far in this run.
Handled == SubSeq(urls, 1, i - 1)

\* The first elements of a list of (url, reason) pairs.
UrlsOf(links) == [k \in 1..Len(links) |-> links[k][1]]

\* C1: a link whose host holds a trusted domain is put on the safe list
\* with the reason "Trusted Domain", in either mode, and handling it makes
\* no call to the model provider and takes no rule branch.
C1_AllowlistPrecedence ==
    [][(pc = "links" /\ i <= Len(urls) /\ HostTrusted(urls[i]) /\ i' = i + 1)
        => /\ safe_links' = Append(safe_links, <<urls[i], <<"Trusted Domain">>>>)
           /\ bad_links' = bad_links
           /\ calls' = calls
           /\ paths' = Append(paths, "whitelist")]_vars

\* C1's case: with the models loaded, a link that holds a dotted quad (the
\* first rule fires on it) was put on the safe list as trusted.
C1_Witness ==
    /\ Active
    /\ \E k \in 1..Len(safe_links) :
          /\ safe_links[k][2] = <<"Trusted Domain">>
          /\ SearchDottedQuad(safe_links[k][1])

\* C2: validation returns a result for every text and never raises, and it
\* succeeds exactly on the texts that pass the four checks.
C2_ValidateTotal ==
    Checked => (exc # "UnboundLocalError" /\ (is_valid <=> PassesChecks(email_text)))

\* C3 as first stated: every text shorter than 20 characters, the empty and
\* the whitespace-only text included, is rejected as too short.
C3_ShortIsTooShort ==
    (Checked /\ Len(email_text) < 20)
        => (pc = "invalid" /\ ~is_valid /\ error_msg = MSG_SHORT)

\* C3: every text shorter than 20 characters is rejected, as too short when
\* it holds a character that is no whitespace and as empty input when it
\* holds none; the handler ends there: no panel, no classifier, no call to
\* the model provider.
C3_ShortRejected ==
    (Checked /\ Len(email_text) < 20)
        => /\ pc = "invalid"
           /\ ~is_valid
           /\ error_msg = IF \A k \in 1..Len(email_text) : IsWs(email_text[k])
                          THEN MSG_EMPTY ELSE MSG_SHORT
           /\ calls = <<>> /\ paths = <<>>
           /\ col1 = NoPanel /\ col2 = NoPanel

\* C3's case: a text of exactly 19 characters was rejected as too short.
C3_Witness ==
    pc = "invalid" /\ Len(email_text) = 19 /\ error_msg = MSG_SHORT

\* The six checks the rule engine is said to make on a URL.
SixRules(url) ==
    \/ Len(url) > 75
    \/ Count(url, "-") > 3
    \/ Count(url, "@") > 0
    \/ Count(url, ".") > 3
    \/ DigitCount(url) > 5
    \/ SearchDottedQuad(url)

\* C4: with the models loaded, a link whose host is not trusted is put on
\* the bad list exactly when one of the six rules fires on it or the model
\* answers 1.
C4_OrOfFailures ==
    [][(/\ pc = "links" /\ i <= Len(urls) /\ Active
        /\ ~urlparse(urls[i]).raised /\ ~HostTrusted(urls[i])
        /\ i' = i + 1)
        => /\ Len(calls') = Len(calls) + 1
           /\ (Len(bad_links') = Len(bad_links) + 1)
                <=> (SixRules(urls[i]) \/ calls'[Len(calls')].ret = 1)]_vars

RECURSIVE RuleOnlyBad(_)
\* The bad list the rule engine alone yields for the URLs us: the links
\* whose host is not trusted and that backup_url_scan flags, with its reason.
RuleOnlyBad(us) ==
    IF Len(us) = 0 THEN <<>>
    ELSE LET u == us[Len(us)]
             rest == RuleOnlyBad(SubSeq(us, 1, Len(us) - 1))
         IN  IF ~HostTrusted(u) /\ backup_url_scan(u).flag = 1
             THEN Append(rest, <<u, backup_url_scan(u).reason>>)
             ELSE rest

\* C5: without the models no call is ever made to the model provider; the
\* text verdict is the keyword scan's, with confidence 95 when flagged and
\* 5 when clear, and the bad links are those the rule engine alone flags.
C5_DegradedParity ==
    Degraded
        => /\ calls = <<>>
           /\ pc \in {"links", "done"}
                => /\ is_phishing = backup_text_scan(email_text).flag
                   /\ confidence = (IF is_phishing = 1 THEN 95 ELSE 5)
                   /\ col1.why = backup_text_scan(email_text).reason
                   /\ bad_links = RuleOnlyBad(Handled)
                   /\ Len(bad_links) + Len(safe_links) = Len(Handled)

\* C5's case: a run without the models has ended with the text flagged at
\* confidence 95, a link flagged by the rules and a link passed.
C5_Witness ==
    /\ Degraded
    /\ pc = "done"
    /\ is_phishing = 1 /\ confidence = 95
    /\ Len(bad_links) > 0 /\ Len(safe_links) > 0

\* The fragments that name each check of the rule engine, in the wording of
\* either path.
RuleNames ==
    [ip |-> {"IP address masking", "IP Address Masking (Rule Violation)"},
     dots |-> {"Too many subdomains", "Too many subdomains (Rule Violation)"},
     dashes |-> {"Too many dashes",
                 "Too many dashes / Typosquatting (Rule Violation)"},
     at |-> {"Contains '@' symbol", "Contains '@' symbol (Rule Violation)"},
     long |-> {"URL is suspiciously long"}]

\* The checks that fire on url.
RulesFired(url) ==
    {r \in DOMAIN RuleNames :
        \/ r = "ip" /\ SearchDottedQuad(url)
        \/ r = "dots" /\ Count(url, ".") > 3
        \/ r = "dashes" /\ Count(url, "-") > 3
        \/ r = "at" /\ Count(url, "@") > 0
        \/ r = "long" /\ Len(url) > 75}

\* C6: the reason of every bad link names every check that fired on it.
C6_FullJustification ==
    \A k \in 1..Len(bad_links) :
        \A r \in RulesFired(bad_links[k][1]) :
            \E f \in Range(bad_links[k][2]) : f \in RuleNames[r]

\* C7: every run on a validated text ends with both panels shown, and a
\* panel reports a failure exactly when the text verdict is malicious or
\* some link is on the bad list.
C7_RecommendationProduced ==
    (is_valid /\ pc \in {"done", "raised"})
        => /\ col1.kind # "none"
           /\ col2.kind # "none"
           /\ (col1.kind = "error" \/ col2.kind = "error")
                <=> (is_phishing # 0 \/ Len(bad_links) > 0)

RECURSIVE UrlIn(_, _)
UrlIn(w, k) ==
    IF k > Len(w) THEN <<>>
    ELSE IF MatchesAt(w, k) THEN SubSeq(w, k, Len(w))
    ELSE UrlIn(w, k + 1)

RECURSIVE UrlsInTokens(_)
\* One URL per whitespace-delimited token that holds a match, in order.
UrlsInTokens(ws) ==
    IF Len(ws) = 0 THEN <<>>
    ELSE (IF UrlIn(ws[1], 1) = <<>> THEN <<>> ELSE <<UrlIn(ws[1], 1)>>)
         \o UrlsInTokens(Tail(ws))

\* The elements of seq at the positions in keep, in order.
RECURSIVE Pick(_, _)
Pick(seq, keep) ==
    IF Len(seq) = 0 THEN <<>>
    ELSE (IF Len(seq) \in keep
          THEN Append(Pick(SubSeq(seq, 1, Len(seq) - 1), keep), seq[Len(seq)])
          ELSE Pick(SubSeq(seq, 1, Len(seq) - 1), keep))

C9_LinkAnalysisTotal ==
    /\ ~(pc = "raised" /\ exc = "ValueError")
    /\ \A k \in 1..Len(calls) :
          calls[k].fn = "url_model.predict" => Len(calls[k].feats) = 7

\* The branch every classification of a run took agrees with the models.
C10_Consistent ==
    /\ Degraded \/ Active
    /\ exc # "AttributeError"
    /\ \A k \in 1..Len(paths) :
          paths[k] \in {"whitelist", IF Active THEN "model" ELSE "rules"}
    /\ Len(paths) > 0 => paths[1] # "whitelist"

\* C10: the three models are all present or all absent, they never change
\* once loaded, every classification of a run takes the branch that goes
\* with them, and the text path never meets a missing vectorizer.
C10_ModeConsistency ==
    /\ []C10_Consistent
    /\ [][pc # "startup" => models' = models]_vars

\* C10's case: a run with the models loaded has ended after the text and
\* two links went through the model.
C10_Witness ==
    /\ pc = "done"
    /\ Active
    /\ Len(paths) >= 3
    /\ \A k \in 1..Len(paths) : paths[k] = "model"

====
